---- MODULE Spec2Model ----
(***************************************************************************)
(* Model of src/extract.py: heuristic extraction of document fields from   *)
(* PDF text, the optional merge of a language model's output, schema       *)
(* validation, and the pipeline / program entry point that chain them.     *)
(*                                                                         *)
(* Python strings are sequences of one-character strings. Python values    *)
(* are tagged records (PyStr, PyNone, PyInt, PyBool, PyList, PyDict), and  *)
(* a Python dict is a function from keys (strings) to values.              *)
(* Positions are Python's (0-based) wherever the source computes with      *)
(* them (start_pos, end_pos, json_start, json_end).                        *)
(***************************************************************************)
EXTENDS Naturals, Integers, Sequences, FiniteSets, TLC

VARIABLES
    text,            \* the text a function is applied to
    call,            \* the call made: [fn |-> name, ...arguments]
    ret,             \* what the call returned, or the exception it raised
    pc,              \* position of the pipeline / entry point
    env,             \* the run's environment: entry, PDF file, use_llm, llm_function
    attempt,         \* entry point: 1 = enhanced run, 2 = fallback to basic extraction
    raw_text,        \* extract_document_info's local raw_text
    clean_text,      \* extract_document_info's local clean_text
    extracted_data,  \* extract_document_info's local extracted_data
    doc_info,        \* the validated record
    exc,             \* the exception raised, if any, and where it went
    runs,            \* how often each stage has been executed, per call of the pipeline
    enh              \* how the last enhancement ended: "none", "merged", "failed"

vars == <<text, call, ret, pc, env, attempt, raw_text, clean_text,
          extracted_data, doc_info, exc, runs, enh>>

----------------------------------------------------------------------------
(* Characters *)

NL == "\n"
TAB == "\t"
QUOTE == "\""

UpperSeq == <<"A", "B", "C", "D", "E", "F", "G", "H", "I", "J", "K", "L", "M", "N", "O", "P", "Q", "R", "S", "T", "U", "V", "W", "X", "Y", "Z">>
LowerSeq == <<"a", "b", "c", "d", "e", "f", "g", "h", "i", "j", "k", "l", "m", "n", "o", "p", "q", "r", "s", "t", "u", "v", "w", "x", "y", "z">>
UpperChars == {UpperSeq[i] : i \in 1..Len(UpperSeq)}
LowerChars == {LowerSeq[i] : i \in 1..Len(LowerSeq)}
DigitChars == {"0", "1", "2", "3", "4", "5", "6", "7", "8", "9"}
\* \s, and what str.strip() strips
SpaceChars == {" ", NL, TAB}

ToLowerChar == [c \in UpperChars |-> LowerSeq[CHOOSE i \in 1..Len(UpperSeq) : UpperSeq[i] = c]]

\* the sequence f[1], ..., f[n]
MkSeq(f, n) == SubSeq(f, 1, n)

\* str.lower()
Lower(s) == MkSeq([i \in 1..Len(s) |-> IF s[i] \in UpperChars THEN ToLowerChar[s[i]] ELSE s[i]], Len(s))

----------------------------------------------------------------------------
(* Python values *)

PyNone == [t |-> "none"]
PyStr(s) == [t |-> "str", s |-> s]
PyInt(n) == [t |-> "int", n |-> n]
PyBool(b) == [t |-> "bool", b |-> b]
PyList(l) == [t |-> "list", l |-> l]
PyDict(d) == [t |-> "dict", d |-> d]

\* bool(value)
Truthy(v) ==
    CASE v.t = "none" -> FALSE
      [] v.t = "str"  -> v.s # <<>>
      [] v.t = "int"  -> v.n # 0
      [] v.t = "bool" -> v.b
      [] v.t = "list" -> v.l # <<>>
      [] v.t = "dict" -> DOMAIN v.d # {}

----------------------------------------------------------------------------
(* str operations *)

\* s[a:b] for 0 <= a
PySlice(s, a, b) == IF b > Len(s) THEN SubSeq(s, a + 1, Len(s)) ELSE SubSeq(s, a + 1, b)

\* p occurs in s at 0-based position i
MatchAt(s, p, i) ==
    /\ i + Len(p) <= Len(s)
    /\ \A k \in 1..Len(p) : s[i + k] = p[k]

\* s.find(p)
Find(s, p) ==
    IF \E i \in 0..(Len(s) - Len(p)) : MatchAt(s, p, i)
    THEN CHOOSE i \in 0..(Len(s) - Len(p)) :
            MatchAt(s, p, i) /\ \A j \in 0..(i - 1) : ~MatchAt(s, p, j)
    ELSE -1

\* s.rfind(p)
RFind(s, p) ==
    IF \E i \in 0..(Len(s) - Len(p)) : MatchAt(s, p, i)
    THEN CHOOSE i \in 0..(Len(s) - Len(p)) :
            MatchAt(s, p, i) /\ \A j \in (i + 1)..(Len(s) - Len(p)) : ~MatchAt(s, p, j)
    ELSE -1

\* p in s
Contains(s, p) == Find(s, p) # -1

\* s.strip()
Strip(s) ==
    IF \A i \in 1..Len(s) : s[i] \in SpaceChars
    THEN <<>>
    ELSE LET a == CHOOSE i \in 1..Len(s) :
                    s[i] \notin SpaceChars /\ \A j \in 1..(i - 1) : s[j] \in SpaceChars
             b == CHOOSE i \in 1..Len(s) :
                    s[i] \notin SpaceChars /\ \A j \in (i + 1)..Len(s) : s[j] \in SpaceChars
         IN  SubSeq(s, a, b)

\* s.split(sep) for a one-character sep
Split(s, sep) ==
    LET cuts == SelectSeq(MkSeq([i \in 1..Len(s) |-> i], Len(s)), LAMBDA i : s[i] = sep)
        from(k) == IF k = 1 THEN 1 ELSE cuts[k - 1] + 1
        to(k) == IF k > Len(cuts) THEN Len(s) ELSE cuts[k] - 1
    IN  MkSeq([k \in 1..(Len(cuts) + 1) |-> SubSeq(s, from(k), to(k))], Len(cuts) + 1)

\* sep.join(parts)
RECURSIVE Join(_, _)
Join(parts, sep) ==
    IF parts = <<>> THEN <<>>
    ELSE IF Len(parts) = 1 THEN parts[1]
    ELSE parts[1] \o sep \o Join(Tail(parts), sep)

\* s.isdigit()
IsDigit(s) == s # <<>> /\ \A i \in 1..Len(s) : s[i] \in DigitChars

----------------------------------------------------------------------------
(* clean_pdf_text *)

\* re.sub(r'\s+', ' ', s)
CollapseWhitespace(s) ==
    LET keep == SelectSeq(MkSeq([i \in 1..Len(s) |-> i], Len(s)),
                          LAMBDA i : s[i] \notin SpaceChars \/ i = 1 \/ s[i - 1] \notin SpaceChars)
    IN  MkSeq([k \in 1..Len(keep) |-> IF s[keep[k]] \in SpaceChars THEN " " ELSE s[keep[k]]], Len(keep))

\* r'\n\d+\n' matches at 0-based position a and its closing newline is the e-th character
PageNumberMatch(s, a, e) ==
    /\ a + 1 <= Len(s) /\ s[a + 1] = NL
    /\ e >= a + 3 /\ e <= Len(s) /\ s[e] = NL
    /\ \A k \in (a + 2)..(e - 1) : s[k] \in DigitChars

\* re.sub(r'\n\d+\n', '\n', s): matches are replaced left to right, without overlap
RECURSIVE StripPageNumbers(_)
StripPageNumbers(s) ==
    LET starts == {a \in 0..(Len(s) - 1) : s[a + 1] = NL /\ \E e \in 1..Len(s) : PageNumberMatch(s, a, e)}
    IN  IF starts = {} THEN s
        ELSE LET a == CHOOSE x \in starts : \A y \in starts : x <= y
                 e == CHOOSE x \in 1..Len(s) : PageNumberMatch(s, a, x)
             IN  PySlice(s, 0, a) \o <<NL>> \o StripPageNumbers(PySlice(s, e, Len(s)))

\* the characters the URL pattern's repeated group accepts:
\* [a-zA-Z] | [0-9] | [$-_@.&+] | [!*\\(\\),] | %XX   ([$-_] is the range 0x24..0x5F)
UrlChars ==
    UpperChars \cup LowerChars \cup DigitChars \cup
    {"$", "%", "&", "'", "(", ")", "*", "+", ",", "-", ".", "/", ":", ";", "<", "=", ">",
     "?", "@", "[", "\\", "]", "^", "_", "!"}

\* the URL pattern matches starting at the i-th character
UrlStartAt(s, i) ==
    \/ MatchAt(s, <<"h", "t", "t", "p", ":", "/", "/">>, i - 1) /\ i + 7 <= Len(s) /\ s[i + 7] \in UrlChars
    \/ MatchAt(s, <<"h", "t", "t", "p", "s", ":", "/", "/">>, i - 1) /\ i + 8 <= Len(s) /\ s[i + 8] \in UrlChars

\* re.sub(url_pattern, '', s): a match runs from its "http" over every following URL character
RemoveUrls(s) ==
    LET starts == {p \in 1..Len(s) : UrlStartAt(s, p)}
        inUrl(i) == \E p \in starts : p <= i /\ \A j \in p..i : s[j] \in UrlChars
        keep == SelectSeq(MkSeq([i \in 1..Len(s) |-> i], Len(s)), LAMBDA i : ~inUrl(i))
    IN  MkSeq([k \in 1..Len(keep) |-> s[keep[k]]], Len(keep))

\* re.sub(r'\S+@\S+', '', s): a whitespace-free word with an inner '@' is removed whole
RemoveEmails(s) ==
    LET word(i, k) == \A j \in (IF i < k THEN i ELSE k)..(IF i < k THEN k ELSE i) :
                          s[j] \notin SpaceChars
        ats == {k \in 2..(Len(s) - 1) :
                   s[k] = "@" /\ s[k - 1] \notin SpaceChars /\ s[k + 1] \notin SpaceChars}
        inEmail(i) == \E k \in ats : word(i, k)
        keep == SelectSeq(MkSeq([i \in 1..Len(s) |-> i], Len(s)), LAMBDA i : ~inEmail(i))
    IN  MkSeq([k \in 1..Len(keep) |-> s[keep[k]]], Len(keep))

\* re.sub(r'\n+', '\n', s)
CollapseNewlines(s) ==
    LET keep == SelectSeq(MkSeq([i \in 1..Len(s) |-> i], Len(s)),
                          LAMBDA i : s[i] # NL \/ i = 1 \/ s[i - 1] # NL)
    IN  MkSeq([k \in 1..Len(keep) |-> s[keep[k]]], Len(keep))

clean_pdf_text(raw) ==
    Strip(CollapseNewlines(RemoveEmails(RemoveUrls(StripPageNumbers(CollapseWhitespace(raw))))))

----------------------------------------------------------------------------
(* extract_title *)

TitleLines == 20
TitleMinLen == 10
SkipMarkers == {<<"i", "s", "s", "n">>, <<"d", "o", "i">>, <<"©">>, <<"p", "a", "g", "e">>, <<"v", "o", "l", "u", "m", "e">>}
TitleNotFound == <<"D", "o", "c", "u", "m", "e", "n", "t", " ", "t", "i", "t", "l", "e", " ", "n", "o", "t", " ", "f", "o", "u", "n", "d">>

\* [line.strip() for line in text.split('\n') if line.strip()]
StrippedLines(t) ==
    LET raw == Split(t, NL)
    IN  SelectSeq(MkSeq([i \in 1..Len(raw) |-> Strip(raw[i])], Len(raw)), LAMBDA l : l # <<>>)

\* any(skip in line.lower() for skip in [...])
HasSkipMarker(line) == \E m \in SkipMarkers : Contains(Lower(line), m)

\* the for loop over lines[:20], from its i-th line on
RECURSIVE TitleLoop(_, _)
TitleLoop(lines, i) ==
    IF i > Len(lines) THEN TitleNotFound
    ELSE IF HasSkipMarker(lines[i]) THEN TitleLoop(lines, i + 1)
    ELSE IF Len(lines[i]) > TitleMinLen THEN lines[i]
    ELSE TitleLoop(lines, i + 1)

\* extract_title looking at every line (a variant: no lines[:20])
extract_title_all_lines(t) == TitleLoop(StrippedLines(t), 1)

extract_title(t) == TitleLoop(PySlice(StrippedLines(t), 0, TitleLines), 1)

----------------------------------------------------------------------------
(* extract_section_by_pattern *)

\* a pattern: a literal text, or r'\n[A-Z][A-Z\s]+\n'
Lit(s) == [kind |-> "lit", s |-> s]
CapsHeading == [kind |-> "caps"]

\* r'\n[A-Z][A-Z\s]+\n' matches s at 0-based position a
CapsMatchAt(s, a) ==
    /\ a + 2 <= Len(s)
    /\ s[a + 1] = NL
    /\ s[a + 2] \in UpperChars
    /\ \E e \in (a + 4)..Len(s) :
          /\ s[e] = NL
          /\ \A k \in (a + 3)..(e - 1) : s[k] \in UpperChars \cup SpaceChars

\* re.search(pattern, s): the match's start(), -1 for no match
SearchStart(pattern, s) ==
    IF pattern.kind = "lit" THEN Find(s, pattern.s)
    ELSE IF \E a \in 0..(Len(s) - 1) : CapsMatchAt(s, a)
         THEN CHOOSE a \in 0..(Len(s) - 1) :
                 CapsMatchAt(s, a) /\ \A b \in 0..(a - 1) : ~CapsMatchAt(s, b)
         ELSE -1

\* end() of the match of a start pattern (start patterns are literal)
SearchEnd(pattern, s) == SearchStart(pattern, s) + Len(pattern.s)

end_patterns ==
    << CapsHeading, Lit(<<NL, "r", "e", "f", "e", "r", "e", "n", "c", "e", "s", NL>>), Lit(<<NL, "c", "o", "n", "c", "l", "u", "s", "i", "o", "n", NL>>), Lit(<<NL, "d", "i", "s", "c", "u", "s", "s", "i", "o", "n", NL>>) >>

\* the inner for loop: end_pos, trying end_patterns from the i-th on
RECURSIVE EndLoop(_, _, _, _)
EndLoop(t, text_lower, start_pos, i) ==
    IF i > Len(end_patterns) THEN Len(t)
    ELSE LET m == SearchStart(end_patterns[i], PySlice(text_lower, start_pos, Len(text_lower)))
         IN  IF m # -1 THEN start_pos + m
             ELSE EndLoop(t, text_lower, start_pos, i + 1)

\* the outer for loop, from the i-th pattern on
RECURSIVE SectionLoop(_, _, _, _, _)
SectionLoop(t, text_lower, patterns, max_chars, i) ==
    IF i > Len(patterns) THEN PyNone
    ELSE IF SearchStart(patterns[i], text_lower) # -1
         THEN LET start_pos == SearchEnd(patterns[i], text_lower)
                  end_pos == EndLoop(t, text_lower, start_pos, 1)
                  section == Strip(PySlice(t, start_pos, end_pos))
              IN  IF section # <<>> THEN PyStr(PySlice(section, 0, max_chars)) ELSE PyNone
         ELSE SectionLoop(t, text_lower, patterns, max_chars, i + 1)

\* extract_section_by_pattern returning the whole section (a variant: no [:max_chars])
extract_section_uncapped(t, patterns, max_chars) ==
    SectionLoop(t, Lower(t), patterns, Len(t), 1)

extract_section_by_pattern(t, patterns, max_chars) ==
    SectionLoop(t, Lower(t), patterns, max_chars, 1)

----------------------------------------------------------------------------
(* extract_references *)

RefMaxChars == 1500
RefMinLen == 20
RefMaxCount == 5
ref_patterns == << Lit(<<NL, "r", "e", "f", "e", "r", "e", "n", "c", "e", "s", NL>>), Lit(<<NL, "b", "i", "b", "l", "i", "o", "g", "r", "a", "p", "h", "y", NL>>), Lit(<<NL, "c", "i", "t", "a", "t", "i", "o", "n", "s", NL>>) >>

\* the loop building refs, keeping lines of 20 characters too (a variant: >= for >)
RefLinesFrom20(ref_text) ==
    LET raw == Split(ref_text, NL)
    IN  SelectSeq(MkSeq([i \in 1..Len(raw) |-> Strip(raw[i])], Len(raw)),
                  LAMBDA line : Len(line) >= RefMinLen /\ ~IsDigit(line))

\* the loop building refs
RefLines(ref_text) ==
    LET raw == Split(ref_text, NL)
    IN  SelectSeq(MkSeq([i \in 1..Len(raw) |-> Strip(raw[i])], Len(raw)),
                  LAMBDA line : Len(line) > RefMinLen /\ ~IsDigit(line))

extract_references(t) ==
    LET ref_text == extract_section_by_pattern(t, ref_patterns, RefMaxChars)
    IN  IF Truthy(ref_text)
        THEN PyStr(Join(PySlice(RefLines(ref_text.s), 0, RefMaxCount), <<";", " ">>))
        ELSE PyNone

----------------------------------------------------------------------------
(* extract_figures_and_images *)

FigMaxCount == 10
figure_labels == << <<"f", "i", "g", "u", "r", "e", " ">>, <<"f", "i", "g", ".", " ">>, <<"t", "a", "b", "l", "e", " ">>, <<"i", "m", "a", "g", "e", " ">> >>

\* '<label>\d+[:.][^\.]*\.' (IGNORECASE) matches s from 0-based position a up to its e-th character
FigureMatch(s, lower, label, a, e) ==
    /\ MatchAt(lower, label, a)
    /\ \E c \in (a + Len(label) + 2)..(e - 1) :
          /\ \A k \in (a + Len(label) + 1)..(c - 1) : s[k] \in DigitChars
          /\ s[c] \in {":", "."}
          /\ \A k \in (c + 1)..(e - 1) : s[k] # "."
    /\ e <= Len(s) /\ s[e] = "."

\* re.findall(pattern, s[from:]), matches left to right without overlap
RECURSIVE FindAllFigures(_, _, _, _)
FindAllFigures(s, lower, label, from) ==
    LET starts == {a \in from..(Len(s) - 1) :
                      MatchAt(lower, label, a) /\ \E e \in 1..Len(s) : FigureMatch(s, lower, label, a, e)}
    IN  IF starts = {} THEN <<>>
        ELSE LET a == CHOOSE x \in starts : \A y \in starts : x <= y
                 e == CHOOSE x \in 1..Len(s) : FigureMatch(s, lower, label, a, x)
             IN  <<PySlice(s, a, e)>> \o FindAllFigures(s, lower, label, e)

extract_figures_and_images(t) ==
    LET lower == Lower(t)
        figure_info == FindAllFigures(t, lower, figure_labels[1], 0)
                       \o FindAllFigures(t, lower, figure_labels[2], 0)
                       \o FindAllFigures(t, lower, figure_labels[3], 0)
                       \o FindAllFigures(t, lower, figure_labels[4], 0)
    IN  IF figure_info # <<>> THEN PyStr(Join(PySlice(figure_info, 0, FigMaxCount), <<";", " ">>))
        ELSE PyNone

----------------------------------------------------------------------------
(* extract_document_structure *)

SectionMaxChars == 1500
LimitationMaxChars == 1000

intro_patterns ==
    << Lit(<<NL, "i", "n", "t", "r", "o", "d", "u", "c", "t", "i", "o", "n", NL>>), Lit(<<NL, "a", "b", "s", "t", "r", "a", "c", "t", NL>>), Lit(<<NL, "s", "u", "m", "m", "a", "r", "y", NL>>), Lit(<<NL, "b", "a", "c", "k", "g", "r", "o", "u", "n", "d", NL>>) >>
thought_patterns ==
    << Lit(<<NL, "m", "e", "t", "h", "o", "d", "s", NL>>), Lit(<<NL, "m", "e", "t", "h", "o", "d", "o", "l", "o", "g", "y", NL>>), Lit(<<NL, "a", "p", "p", "r", "o", "a", "c", "h", NL>>), Lit(<<NL, "d", "i", "s", "c", "u", "s", "s", "i", "o", "n", NL>>) >>
answer_patterns ==
    << Lit(<<NL, "r", "e", "s", "u", "l", "t", "s", NL>>), Lit(<<NL, "f", "i", "n", "d", "i", "n", "g", "s", NL>>), Lit(<<NL, "c", "o", "n", "c", "l", "u", "s", "i", "o", "n", NL>>), Lit(<<NL, "o", "u", "t", "c", "o", "m", "e", NL>>) >>
limitation_patterns ==
    << Lit(<<NL, "l", "i", "m", "i", "t", "a", "t", "i", "o", "n", "s", NL>>), Lit(<<NL, "f", "u", "t", "u", "r", "e", " ", "w", "o", "r", "k", NL>>), Lit(<<NL, "f", "u", "t", "u", "r", "e", " ", "r", "e", "s", "e", "a", "r", "c", "h", NL>>) >>

IntroNotFound == <<"I", "n", "t", "r", "o", "d", "u", "c", "t", "i", "o", "n", " ", "s", "e", "c", "t", "i", "o", "n", " ", "n", "o", "t", " ", "f", "o", "u", "n", "d", " ", "i", "n", " ", "d", "o", "c", "u", "m", "e", "n", "t">>
ThoughtsNotFound == <<"M", "e", "t", "h", "o", "d", "s", "/", "D", "i", "s", "c", "u", "s", "s", "i", "o", "n", " ", "s", "e", "c", "t", "i", "o", "n", " ", "n", "o", "t", " ", "f", "o", "u", "n", "d", " ", "i", "n", " ", "d", "o", "c", "u", "m", "e", "n", "t">>
AnswersNotFound == <<"R", "e", "s", "u", "l", "t", "s", "/", "C", "o", "n", "c", "l", "u", "s", "i", "o", "n", "s", " ", "s", "e", "c", "t", "i", "o", "n", " ", "n", "o", "t", " ", "f", "o", "u", "n", "d", " ", "i", "n", " ", "d", "o", "c", "u", "m", "e", "n", "t">>

kdocument == <<"d", "o", "c", "u", "m", "e", "n", "t">>
kIntroduction == <<"I", "n", "t", "r", "o", "d", "u", "c", "t", "i", "o", "n">>
kThoughts == <<"T", "h", "o", "u", "g", "h", "t", "s">>
kAnswers == <<"A", "n", "s", "w", "e", "r", "s">>
kHallmarks == <<"H", "a", "l", "l", "m", "a", "r", "k", "s">>
kFurther_Reading == <<"F", "u", "r", "t", "h", "e", "r", "_", "R", "e", "a", "d", "i", "n", "g">>
kImages == <<"I", "m", "a", "g", "e", "s">>
kFurther_Development == <<"F", "u", "r", "t", "h", "e", "r", "_", "D", "e", "v", "e", "l", "o", "p", "m", "e", "n", "t">>
kThoughts_I == <<"T", "h", "o", "u", "g", "h", "t", "s", "_", "I">>
kAnswers_I == <<"A", "n", "s", "w", "e", "r", "s", "_", "I">>
kAnswers_II == <<"A", "n", "s", "w", "e", "r", "s", "_", "I", "I">>
kFurther_Thoughts == <<"F", "u", "r", "t", "h", "e", "r", "_", "T", "h", "o", "u", "g", "h", "t", "s">>
kEpendymoma == <<"E", "p", "e", "n", "d", "y", "m", "o", "m", "a">>

\* the value as it is (a variant: no fallback)
OrElseNothing(value, fallback) == value

\* value if value else fallback
OrElse(value, fallback) == IF Truthy(value) THEN value ELSE PyStr(fallback)

extract_document_structure(ct) ==
    (kdocument :> PyStr(extract_title(ct)))
    @@ (kIntroduction :> OrElse(extract_section_by_pattern(ct, intro_patterns, SectionMaxChars), IntroNotFound))
    @@ (kThoughts :> OrElse(extract_section_by_pattern(ct, thought_patterns, SectionMaxChars), ThoughtsNotFound))
    @@ (kAnswers :> OrElse(extract_section_by_pattern(ct, answer_patterns, SectionMaxChars), AnswersNotFound))
    @@ (kFurther_Reading :> extract_references(ct))
    @@ (kImages :> extract_figures_and_images(ct))
    @@ (kFurther_Development :> extract_section_by_pattern(ct, limitation_patterns, LimitationMaxChars))

----------------------------------------------------------------------------
(* json.loads, for the JSON the model's answers are drawn from: objects,    *)
(* arrays, strings without escapes, null, true, false, unsigned integers    *)

\* the i-th character, "" past the end
At(s, i) == IF i >= 1 /\ i <= Len(s) THEN s[i] ELSE ""

\* the first position from i on that holds no whitespace
SkipSpace(s, i) ==
    IF \E j \in i..Len(s) : s[j] \notin SpaceChars
    THEN CHOOSE j \in i..Len(s) : s[j] \notin SpaceChars /\ \A k \in i..(j - 1) : s[k] \in SpaceChars
    ELSE Len(s) + 1

JsonError == [ok |-> FALSE]
JsonOk(v, next) == [ok |-> TRUE, v |-> v, next |-> next]

\* a string literal opening at i: it closes at the next quote; raw control characters and
\* escapes are not accepted
ParseString(s, i) ==
    IF At(s, i) # QUOTE \/ ~(\E j \in (i + 1)..Len(s) : s[j] = QUOTE) THEN JsonError
    ELSE LET j == CHOOSE x \in (i + 1)..Len(s) :
                     s[x] = QUOTE /\ \A k \in (i + 1)..(x - 1) : s[k] # QUOTE
         IN  IF \E k \in (i + 1)..(j - 1) : s[k] \in {NL, TAB, "\\"} THEN JsonError
             ELSE JsonOk(PyStr(SubSeq(s, i + 1, j - 1)), j + 1)

DigitValue(c) == CHOOSE n \in 0..9 : c = <<"0", "1", "2", "3", "4", "5", "6", "7", "8", "9">>[n + 1]

RECURSIVE DecimalValue(_)
DecimalValue(digits) ==
    IF digits = <<>> THEN 0
    ELSE 10 * DecimalValue(SubSeq(digits, 1, Len(digits) - 1)) + DigitValue(digits[Len(digits)])

\* an unsigned integer at i: "0", or a run of digits that does not start with 0
ParseNumber(s, i) ==
    IF At(s, i) = "0" THEN JsonOk(PyInt(0), i + 1)
    ELSE LET j == IF \E x \in i..Len(s) : s[x] \notin DigitChars
                  THEN CHOOSE x \in i..Len(s) :
                          s[x] \notin DigitChars /\ \A k \in i..(x - 1) : s[k] \in DigitChars
                  ELSE Len(s) + 1
         IN  JsonOk(PyInt(DecimalValue(SubSeq(s, i, j - 1))), j)

\* the items of a dict (a sequence of [k, v], keys unique) with key k set to v
SetItem(items, k, v) ==
    IF \E n \in 1..Len(items) : items[n].k = k
    THEN MkSeq([n \in 1..Len(items) |-> IF items[n].k = k THEN [k |-> k, v |-> v] ELSE items[n]],
               Len(items))
    ELSE Append(items, [k |-> k, v |-> v])

RECURSIVE ParseValue(_, _), ParseMembers(_, _, _), ParseElements(_, _, _)

\* the value that starts at i
ParseValue(s, i) ==
    CASE At(s, i) = QUOTE -> ParseString(s, i)
      [] At(s, i) = "{" ->
            LET j == SkipSpace(s, i + 1)
            IN  IF At(s, j) = "}" THEN JsonOk(PyDict(<<>>), j + 1)
                ELSE ParseMembers(s, j, <<>>)
      [] At(s, i) = "[" ->
            LET j == SkipSpace(s, i + 1)
            IN  IF At(s, j) = "]" THEN JsonOk(PyList(<<>>), j + 1)
                ELSE ParseElements(s, j, <<>>)
      [] At(s, i) \in DigitChars -> ParseNumber(s, i)
      [] MatchAt(s, <<"n", "u", "l", "l">>, i - 1) -> JsonOk(PyNone, i + 4)
      [] MatchAt(s, <<"t", "r", "u", "e">>, i - 1) -> JsonOk(PyBool(TRUE), i + 4)
      [] MatchAt(s, <<"f", "a", "l", "s", "e">>, i - 1) -> JsonOk(PyBool(FALSE), i + 5)
      [] OTHER -> JsonError

\* the members of an object from i on (a key is expected at i), after the items read so far
ParseMembers(s, i, items) ==
    LET key == ParseString(s, i)
    IN  IF ~key.ok THEN JsonError
        ELSE LET colon == SkipSpace(s, key.next)
                 val == ParseValue(s, SkipSpace(s, colon + 1))
             IN  IF At(s, colon) # ":" \/ ~val.ok THEN JsonError
                 ELSE LET sep == SkipSpace(s, val.next)
                          now == SetItem(items, key.v.s, val.v)
                      IN  IF At(s, sep) = "}" THEN JsonOk(PyDict(now), sep + 1)
                          ELSE IF At(s, sep) = "," THEN ParseMembers(s, SkipSpace(s, sep + 1), now)
                          ELSE JsonError

\* the elements of an array from i on, after the elements read so far
ParseElements(s, i, elems) ==
    LET val == ParseValue(s, i)
    IN  IF ~val.ok THEN JsonError
        ELSE LET sep == SkipSpace(s, val.next)
             IN  IF At(s, sep) = "]" THEN JsonOk(PyList(Append(elems, val.v)), sep + 1)
                 ELSE IF At(s, sep) = "," THEN ParseElements(s, SkipSpace(s, sep + 1), Append(elems, val.v))
                 ELSE JsonError

\* json.loads(s): [ok |-> FALSE] stands for JSONDecodeError
JsonLoads(s) ==
    LET val == ParseValue(s, SkipSpace(s, 1))
    IN  IF val.ok /\ SkipSpace(s, val.next) = Len(s) + 1 THEN val ELSE JsonError

----------------------------------------------------------------------------
(* enhance_with_llm *)

\* llm_function: absent (None), or a function that raises or returns a value
NoLlm == [kind |-> "absent"]
LlmRaises == [kind |-> "raises"]
LlmReturns(v) == [kind |-> "returns", v |-> v]

\* a value whose truth test raises (an array, a data frame)
PyUnbool == [t |-> "unbool"]

\* the parsing of llm_response: the data, or ok = FALSE for the exception raised
ParseResponse(llm_response) ==
    IF llm_response.t = "str"
    THEN LET json_start == Find(llm_response.s, <<"{">>)
             json_end == RFind(llm_response.s, <<"}">>) + 1
         IN  IF json_start # -1 /\ json_end # -1
             THEN JsonLoads(SubSeq(llm_response.s, json_start + 1, json_end))
             ELSE JsonError
    ELSE [ok |-> TRUE, v |-> llm_response]

\* the test without its second half (a variant: "null" is taken)
UseValueTruthy(value) ==
    IF value.t = "unbool" THEN [ok |-> FALSE]
    ELSE [ok |-> TRUE, use |-> Truthy(value)]

\* value and value != "null"; ok = FALSE when the test raises
UseValue(value) ==
    IF value.t = "unbool" THEN [ok |-> FALSE]
    ELSE [ok |-> TRUE, use |-> Truthy(value) /\ value # PyStr(<<"n", "u", "l", "l">>)]

\* enhanced_data[key] = value
Assign(data, key, value) ==
    [x \in DOMAIN data \cup {key} |-> IF x = key THEN value ELSE data[x]]

\* the merge loop over llm_data.items() from the i-th item on; ok = FALSE when it raises
RECURSIVE MergeLoop(_, _, _)
MergeLoop(enhanced_data, items, i) ==
    IF i > Len(items) THEN [ok |-> TRUE, data |-> enhanced_data]
    ELSE LET test == UseValue(items[i].v)
         IN  IF ~test.ok THEN [ok |-> FALSE, data |-> enhanced_data]
             ELSE MergeLoop(IF test.use THEN Assign(enhanced_data, items[i].k, items[i].v)
                            ELSE enhanced_data,
                            items, i + 1)

\* the merge working on the mapping passed (a variant: no .copy())
MergeTargetInPlace(data) == [copy |-> FALSE, data |-> data]

\* what the merge works on: enhanced_data = extracted_data.copy()
MergeTarget(data) == [copy |-> TRUE, data |-> data]

\* enhance_with_llm(extracted_data, clean_text, llm_function):
\*   ret  - the mapping returned
\*   arg  - the caller's extracted_data object after the call
\*   how  - "none" (no llm_function), "merged", "failed" (the except branch)
enhance_with_llm(data, llm_function) ==
    IF llm_function.kind = "absent" THEN [ret |-> data, arg |-> data, how |-> "none"]
    ELSE IF llm_function.kind = "raises" THEN [ret |-> data, arg |-> data, how |-> "failed"]
    ELSE LET llm_data == ParseResponse(llm_function.v)
         IN  IF ~llm_data.ok THEN [ret |-> data, arg |-> data, how |-> "failed"]
             ELSE IF llm_data.v.t # "dict"       \* llm_data.items() raises AttributeError
             THEN [ret |-> data, arg |-> data, how |-> "failed"]
             ELSE LET target == MergeTarget(data)
                      merge == MergeLoop(target.data, llm_data.v.d, 1)
                      after == IF target.copy THEN data ELSE merge.data
                  IN  IF merge.ok THEN [ret |-> merge.data, arg |-> after, how |-> "merged"]
                      ELSE [ret |-> after, arg |-> after, how |-> "failed"]

----------------------------------------------------------------------------
(* DocumentInfo and create_document_info *)

RequiredFields == {kdocument, kIntroduction, kThoughts, kAnswers}
OptionalFields == {kHallmarks, kFurther_Reading, kImages, kFurther_Development, kThoughts_I,
                   kAnswers_I, kAnswers_II, kFurther_Thoughts, kEpendymoma}

\* validation that looks for the required keys only (a variant: no types)
FieldsPresent(data) == \A k \in RequiredFields : k \in DOMAIN data

\* DocumentInfo(**data) validates: str fields are required and take a str only,
\* Optional[str] fields take a str or None; keys that are no field are ignored
FieldsValid(data) ==
    /\ \A k \in RequiredFields : k \in DOMAIN data /\ data[k].t = "str"
    /\ \A k \in OptionalFields \cap DOMAIN data : data[k].t \in {"str", "none"}

\* the model built by DocumentInfo(**data)
DocumentInfo(data) ==
    [k \in RequiredFields \cup OptionalFields |-> IF k \in DOMAIN data THEN data[k] ELSE PyNone]

\* create_document_info(extracted_data): the record, or the validation error re-raised
create_document_info(data) ==
    IF FieldsValid(data) THEN [ok |-> TRUE, doc_info |-> DocumentInfo(data)]
    ELSE [ok |-> FALSE, exc |-> "ValidationError"]


----------------------------------------------------------------------------
(* Inputs *)

\* how many pieces (lines, blocks of lines) an input text is made of
MaxPieces == 3
\* how many fragments a language model's answer is made of
MaxFragments == 3
\* how many pages a PDF has
MaxPages == 2

RECURSIVE Concat(_)
Concat(parts) == IF Len(parts) = 0 THEN <<>> ELSE parts[1] \o Concat(Tail(parts))

\* the texts made of at most n of the given pieces
TextsOf(pieces, n) == {Concat(ps) : ps \in UNION {[1..k -> pieces] : k \in 0..n}}

\* piece: nineteen short lines with blank lines between them
ShortLines ==
    MkSeq([i \in 1..76 |-> <<"a", "b", NL, NL>>[((i - 1) % 4) + 1]], 76)

\* lines a title is looked for in
TitlePieces ==
    { <<"I", "S", "S", "N", " ", "1", "2", "3", "4", NL>>,
      <<"S", "h", "o", "r", "t", " ", "l", "i", "n", "e", NL>>,
      <<"W", "e", " ", "f", "o", "u", "n", "d", " ", "Z", ".", NL>>,
      <<" ", " ", "T", "h", "i", "s", " ", "p", "a", "p", "e", "r", " ", "s", "t", "u", "d", "i", "e", "s", " ", "X", ".", " ", NL>>,
      <<"V", "o", "l", ".", " ", "2", ",", " ", "P", "a", "g", "e", " ", "7", NL>>,
      ShortLines }

\* headers and bodies of sections
SectionPieces ==
    { <<NL, "A", "b", "s", "t", "r", "a", "c", "t", NL>>,
      <<NL, "I", "n", "t", "r", "o", "d", "u", "c", "t", "i", "o", "n", NL>>,
      <<"B", "o", "d", "y", " ", "t", "e", "x", "t", " ", "X", "y", ".", NL>>,
      <<"M", "E", "T", "H", "O", "D", "S", NL>>,
      <<NL, "R", "e", "f", "e", "r", "e", "n", "c", "e", "s", NL>>,
      <<NL, "C", "o", "n", "c", "l", "u", "s", "i", "o", "n", NL>> }

FiveReferences ==
    <<"A", ".", " ", "A", "u", "t", "h", "o", "r", ",", " ", "F", "i", "r", "s", "t", " ", "c", "i", "t", "e", "d", " ", "w", "o", "r", "k", ".", NL, "B", ".", " ", "A", "u", "t", "h", "o", "r", ",", " ", "S", "e", "c", "o", "n", "d", " ", "c", "i", "t", "e", "d", " ", "w", "o", "r", "k", ".", NL, "C", ".", " ", "A", "u", "t", "h", "o", "r", ",", " ", "T", "h", "i", "r", "d", " ", "c", "i", "t", "e", "d", " ", "w", "o", "r", "k", ".", NL, "D", ".", " ", "A", "u", "t", "h", "o", "r", ",", " ", "F", "o", "u", "r", "t", "h", " ", "c", "i", "t", "e", "d", " ", "w", "o", "r", "k", ".", NL, "E", ".", " ", "A", "u", "t", "h", "o", "r", ",", " ", "F", "i", "f", "t", "h", " ", "c", "i", "t", "e", "d", " ", "w", "o", "r", "k", ".", NL>>

\* a reference list's lines: long enough, exactly 20 characters, digits only
ReferencePieces ==
    { <<NL, "R", "e", "f", "e", "r", "e", "n", "c", "e", "s", NL>>,
      <<"1", ".", " ", "S", "m", "i", "t", "h", " ", "e", "t", " ", "a", "l", ".", ",", " ", "2", "0", "2", "0", ".", NL>>,
      <<"2", ".", " ", "J", "o", "n", "e", "s", " ", "e", "t", " ", "a", "l", " ", "2", "0", "2", "1", ".", NL>>,
      <<"1", "2", "3", "4", "5", "6", "7", "8", "9", "0", "1", "2", "3", "4", "5", "6", "7", "8", "9", "0", "1", NL>>,
      FiveReferences }

\* a references section that is longer than the cap on it
LongLine == MkSeq([i \in 1..1490 |-> <<"l", "o", "n", "g", " ", "l", "i", "n", "e", " ">>[((i - 1) % 10) + 1]], 1490)
LongTexts ==
    { <<NL, "R", "e", "f", "e", "r", "e", "n", "c", "e", "s", NL>> \o LongLine \o <<NL>> \o p : p \in ReferencePieces \cup SectionPieces }

Texts ==
    TextsOf(TitlePieces, MaxPieces) \cup TextsOf(SectionPieces, MaxPieces)
    \cup TextsOf(ReferencePieces, MaxPieces) \cup LongTexts

\* pattern lists and caps extract_section_by_pattern is called with
PatternLists ==
    { intro_patterns, answer_patterns, << Lit(<<NL, "a", "b", "s", "t", "r", "a", "c", "t", NL>>), Lit(<<NL, "i", "n", "t", "r", "o", "d", "u", "c", "t", "i", "o", "n", NL>>) >> }
MaxCharsInputs == {4, SectionMaxChars}

\* the spec's example: the text of a one-page PDF (read_pdf_file appends the newline)
ExamplePage ==
    <<"I", "S", "S", "N", " ", "1", "2", "3", "4", NL, NL, "I", "n", "t", "r", "o", "d", "u", "c", "t", "i", "o", "n", NL, "T", "h", "i", "s", " ", "p", "a", "p", "e", "r", " ", "s", "t", "u", "d", "i", "e", "s", " ", "X", ".", NL, NL, "M", "e", "t", "h", "o", "d", "s", NL, "W", "e", " ", "d", "i", "d", " ", "Y", ".", NL, NL, "R", "e", "s", "u", "l", "t", "s", NL, "W", "e", " ", "f", "o", "u", "n", "d", " ", "Z", ".", NL, NL, "R", "e", "f", "e", "r", "e", "n", "c", "e", "s", NL, "1", ".", " ", "S", "m", "i", "t", "h", " ", "e", "t", " ", "a", "l", ".", ",", " ", "2", "0", "2", "0", ",", " ", "a", " ", "l", "o", "n", "g", " ", "c", "i", "t", "a", "t", "i", "o", "n", " ", "l", "i", "n", "e", " ", "o", "v", "e", "r", " ", "t", "w", "e", "n", "t", "y", " ", "c", "h", "a", "r", "s", ".">>
ExampleRaw == ExamplePage \o <<NL>>

PageTexts ==
    { ExamplePage,
      <<>>,
      <<" ", NL, TAB>>,
      <<"A", " ", "S", "t", "u", "d", "y", " ", "o", "f", " ", "T", "h", "i", "n", "g", "s", NL, "1", "2", NL, "s", "e", "e", " ", "h", "t", "t", "p", ":", "/", "/", "a", ".", "b", "/", "c", "?", "d", "=", "1", " ", "o", "r", " ", "m", "e", "@", "x", ".", "o", "r", "g", NL, NL, "F", "i", "g", "u", "r", "e", " ", "1", ":", " ", "a", " ", "c", "a", "t", ".", " ">> }

PdfPages == UNION {[1..k -> PageTexts] : k \in 0..MaxPages}

\* fragments of a language model's answer
Fragments ==
    { <<"S", "u", "r", "e", ":", " ">>,
      <<"{", QUOTE, "d", "o", "c", "u", "m", "e", "n", "t", QUOTE, ":", " ", QUOTE, "N", "e", "w", " ", "T", "i", "t", "l", "e", QUOTE>>,
      <<",", " ", QUOTE, "H", "a", "l", "l", "m", "a", "r", "k", "s", QUOTE, ":", " ", QUOTE, "n", "u", "l", "l", QUOTE, ",", " ", QUOTE, "I", "m", "a", "g", "e", "s", QUOTE, ":", " ", QUOTE, QUOTE, ",", " ", QUOTE, "T", "h", "o", "u", "g", "h", "t", "s", QUOTE, ":", " ", "n", "u", "l", "l", ",", " ", QUOTE, "I", "n", "t", "r", "o", "d", "u", "c", "t", "i", "o", "n", QUOTE, ":", " ", "f", "a", "l", "s", "e", ",", " ", QUOTE, "F", "u", "r", "t", "h", "e", "r", "_", "R", "e", "a", "d", "i", "n", "g", QUOTE, ":", " ", "0">>,
      <<",", " ", QUOTE, "A", "n", "s", "w", "e", "r", "s", QUOTE, ":", " ", "[", QUOTE, "a", QUOTE, "]", ",", " ", QUOTE, "e", "x", "t", "r", "a", QUOTE, ":", " ", QUOTE, "e", QUOTE>>,
      <<"}">> }

Responses == {Concat(fs) : fs \in UNION {[1..k -> Fragments] : k \in 0..MaxFragments}}

\* structured data a model function returns directly
DataOutputs ==
    { PyDict(<<>>),
      PyDict(<< [k |-> kdocument, v |-> PyStr(<<"D", "a", "t", "a", " ", "T", "i", "t", "l", "e">>)],
                [k |-> kThoughts, v |-> PyUnbool],
                [k |-> kAnswers, v |-> PyStr(<<"t", "o", "o", " ", "l", "a", "t", "e">>)] >>),
      PyDict(<< [k |-> kHallmarks, v |-> PyStr(<<"h">>)],
                [k |-> kAnswers, v |-> PyList(<< PyStr(<<"a">>) >>)] >>),
      PyDict(<< [k |-> kHallmarks, v |-> PyList(<<>>)],
                [k |-> kEpendymoma, v |-> PyBool(TRUE)] >>),
      PyList(<<>>),
      PyList(<< PyStr(<<"a">>) >>),
      PyNone,
      PyInt(3) }

LlmFunctions ==
    {NoLlm, LlmRaises} \cup {LlmReturns(PyStr(r)) : r \in Responses} \cup {LlmReturns(d) : d \in DataOutputs}

\* the model functions the pipeline is run with
PipelineLlmFunctions ==
    { LlmRaises,
      LlmReturns(PyStr(<<"n", "o", " ", "j", "s", "o", "n", " ", "h", "e", "r", "e">>)),
      LlmReturns(PyStr(<<"{", QUOTE, "d", "o", "c", "u", "m", "e", "n", "t", QUOTE, ":", " ", QUOTE, "N", "e", "w", " ", "T", "i", "t", "l", "e", QUOTE, ",", " ", QUOTE, "H", "a", "l", "l", "m", "a", "r", "k", "s", QUOTE, ":", " ", QUOTE, "n", "u", "l", "l", QUOTE, "}">>)),
      LlmReturns(PyStr(<<"S", "u", "r", "e", ":", " ", "{", QUOTE, "d", "o", "c", "u", "m", "e", "n", "t", QUOTE, ":", " ", "[", QUOTE, "a", QUOTE, "]", "}">>)),
      LlmReturns(PyList(<<>>)),
      LlmReturns(PyDict(<< [k |-> kAnswers, v |-> PyStr(<<"A">>) ] >>)) }

\* data restricted to the keys in keep
Restrict(data, keep) == [k \in DOMAIN data \cap keep |-> data[k]]

\* mappings handed to enhance_with_llm and create_document_info: what the extraction
\* yields, with a required field missing, with every one missing
Mappings ==
    LET base == {extract_document_structure(<<>>), extract_document_structure(ExampleRaw)}
    IN  base
        \cup {Restrict(m, DOMAIN m \ {k}) : m \in base, k \in RequiredFields}
        \cup {Restrict(m, DOMAIN m \ RequiredFields) : m \in base}

----------------------------------------------------------------------------
(* State *)

Stages == {"read", "clean", "extract", "enhance", "validate"}

NoCall == [fn |-> "none"]
NoExc == [type |-> "none"]
NoData == <<>>
NoRuns == [a \in {1, 2} |-> [s \in Stages |-> 0]]

\* a stage is executed once more in the current call
Ran(stage) == [runs EXCEPT ![attempt][stage] = @ + 1]

\* how often a stage has been executed for the document
Total(stage) == runs[1][stage] + runs[2][stage]

----------------------------------------------------------------------------
(* The functions, called on their own *)

InitExtract ==
    /\ text \in Texts
    /\ call = NoCall
    /\ ret = PyNone
    /\ pc = "unit"
    /\ env = [entry |-> "unit"]
    /\ attempt = 1
    /\ raw_text = <<>>
    /\ clean_text = <<>>
    /\ extracted_data = NoData
    /\ doc_info = NoData
    /\ exc = NoExc
    /\ runs = NoRuns
    /\ enh = "none"

UnitFrame == UNCHANGED <<text, pc, env, attempt, raw_text, clean_text, extracted_data,
                         doc_info, exc, runs, enh>>

CallExtractTitle ==
    /\ call = NoCall
    /\ call' = [fn |-> "extract_title"]
    /\ ret' = PyStr(extract_title(text))
    /\ UnitFrame

CallExtractSection ==
    /\ call = NoCall
    /\ \E patterns \in PatternLists, max_chars \in MaxCharsInputs :
          /\ call' = [fn |-> "extract_section_by_pattern", patterns |-> patterns,
                      max_chars |-> max_chars]
          /\ ret' = extract_section_by_pattern(text, patterns, max_chars)
    /\ UnitFrame

CallExtractReferences ==
    /\ call = NoCall
    /\ call' = [fn |-> "extract_references"]
    /\ ret' = extract_references(text)
    /\ UnitFrame

CallExtractFigures ==
    /\ call = NoCall
    /\ call' = [fn |-> "extract_figures_and_images"]
    /\ ret' = extract_figures_and_images(text)
    /\ UnitFrame

CallExtractStructure ==
    /\ call = NoCall
    /\ call' = [fn |-> "extract_document_structure"]
    /\ ret' = PyDict(extract_document_structure(text))
    /\ UnitFrame

NextExtract ==
    \/ CallExtractTitle
    \/ CallExtractSection
    \/ CallExtractReferences
    \/ CallExtractFigures
    \/ CallExtractStructure

SpecExtract == InitExtract /\ [][NextExtract]_vars

----------------------------------------------------------------------------
(* Enhancement and validation, called on their own *)

InitMerge ==
    /\ extracted_data \in Mappings
    /\ env \in {[entry |-> "unit", llm_function |-> f] : f \in LlmFunctions}
    /\ call = NoCall
    /\ ret = NoData
    /\ pc = "start"
    /\ text = <<>>
    /\ attempt = 1
    /\ raw_text = <<>>
    /\ clean_text = <<>>
    /\ doc_info = NoData
    /\ exc = NoExc
    /\ runs = NoRuns
    /\ enh = "none"

\* enhance_with_llm(extracted_data, clean_text, llm_function); call.arg keeps the mapping passed
CallEnhance ==
    /\ pc = "start"
    /\ LET r == enhance_with_llm(extracted_data, env.llm_function)
       IN  /\ call' = [fn |-> "enhance_with_llm", arg |-> extracted_data]
           /\ ret' = r.ret
           /\ extracted_data' = r.arg
           /\ enh' = r.how
    /\ pc' = "enhanced"
    /\ UNCHANGED <<text, env, attempt, raw_text, clean_text, doc_info, exc, runs>>

\* create_document_info on a mapping as it is, or on what enhance_with_llm returned
CallCreateDocumentInfo ==
    /\ pc \in {"start", "enhanced"}
    /\ LET data == IF pc = "start" THEN extracted_data ELSE ret
           r == create_document_info(data)
       IN  /\ call' = [fn |-> "create_document_info", arg |-> data]
           /\ IF r.ok
              THEN doc_info' = r.doc_info /\ exc' = NoExc
              ELSE doc_info' = doc_info /\ exc' = [type |-> r.exc, to |-> "caller"]
    /\ pc' = "validated"
    /\ UNCHANGED <<text, ret, env, attempt, raw_text, clean_text, extracted_data, runs, enh>>

NextMerge ==
    \/ CallEnhance
    \/ CallCreateDocumentInfo

SpecMerge == InitMerge /\ [][NextMerge]_vars


----------------------------------------------------------------------------
(* The pipeline and the entry point *)

\* read_pdf_file on the file the environment holds
read_pdf_file(file, pages) ==
    IF file = "missing" THEN [ok |-> FALSE, exc |-> "FileNotFoundError"]
    ELSE IF file = "corrupt" THEN [ok |-> FALSE, exc |-> "FileDataError"]
    ELSE LET page_text == Concat([i \in 1..Len(pages) |-> pages[i] \o <<NL>>])
         IN  IF Strip(page_text) = <<>> THEN [ok |-> FALSE, exc |-> "ValueError"]
             ELSE [ok |-> TRUE, text |-> page_text]

\* the entry point enhancing in its second call too (a variant)
CallArgsAlwaysLlm(e, n) == [use_llm |-> e.use_llm, llm_function |-> e.llm_function]

\* the arguments extract_document_info is called with: the caller's own, or the entry
\* point's, which enhances in its first call and does not in its second
CallArgs(e, n) ==
    IF e.entry = "main"
    THEN IF n = 1 THEN [use_llm |-> TRUE, llm_function |-> e.llm_function]
         ELSE [use_llm |-> FALSE, llm_function |-> NoLlm]
    ELSE [use_llm |-> e.use_llm, llm_function |-> e.llm_function]

PipelineEnvs ==
    {[entry |-> "main", file |-> "ok", pages |-> p, use_llm |-> TRUE, llm_function |-> f] :
        p \in PdfPages, f \in PipelineLlmFunctions}
    \cup {[entry |-> "main", file |-> x, pages |-> <<>>, use_llm |-> TRUE, llm_function |-> f] :
        x \in {"missing", "corrupt"}, f \in PipelineLlmFunctions}
    \cup {[entry |-> "call", file |-> "ok", pages |-> p, use_llm |-> u, llm_function |-> f] :
        p \in PdfPages, u \in BOOLEAN, f \in PipelineLlmFunctions \cup {NoLlm}}
    \cup {[entry |-> "call", file |-> x, pages |-> <<>>, use_llm |-> u, llm_function |-> f] :
        x \in {"missing", "corrupt"}, u \in BOOLEAN, f \in PipelineLlmFunctions \cup {NoLlm}}

InitPipe ==
    /\ env \in PipelineEnvs
    /\ pc = "start"
    /\ attempt = 1
    /\ raw_text = <<>>
    /\ clean_text = <<>>
    /\ extracted_data = NoData
    /\ doc_info = NoData
    /\ exc = NoExc
    /\ runs = NoRuns
    /\ enh = "none"
    /\ text = <<>>
    /\ call = NoCall
    /\ ret = PyNone

\* an exception leaves extract_document_info: to its caller, or into the entry point's handler
Raise(type) ==
    /\ pc' = IF env.entry = "main" THEN "except" ELSE "raised"
    /\ exc' = [type |-> type, to |-> IF env.entry = "main" THEN "main" ELSE "caller"]

\* the entry point looks for the file and starts the enhanced extraction
MainStart ==
    /\ pc = "start"
    /\ env.entry = "main"
    /\ pc' = IF env.file # "missing" THEN "read" ELSE "exit"
    /\ UNCHANGED <<text, call, ret, env, attempt, raw_text, clean_text, extracted_data,
                   doc_info, exc, runs, enh>>

\* a caller calls extract_document_info
CallStart ==
    /\ pc = "start"
    /\ env.entry = "call"
    /\ pc' = "read"
    /\ UNCHANGED <<text, call, ret, env, attempt, raw_text, clean_text, extracted_data,
                   doc_info, exc, runs, enh>>

ReadPdf ==
    /\ pc = "read"
    /\ runs' = Ran("read")
    /\ LET r == read_pdf_file(env.file, env.pages)
       IN  IF r.ok
           THEN raw_text' = r.text /\ pc' = "clean" /\ exc' = exc
           ELSE raw_text' = raw_text /\ Raise(r.exc)
    /\ UNCHANGED <<text, call, ret, env, attempt, clean_text, extracted_data, doc_info, enh>>

CleanText ==
    /\ pc = "clean"
    /\ runs' = Ran("clean")
    /\ clean_text' = clean_pdf_text(raw_text)
    /\ pc' = "extract"
    /\ UNCHANGED <<text, call, ret, env, attempt, raw_text, extracted_data, doc_info, exc, enh>>

ExtractStructure ==
    /\ pc = "extract"
    /\ runs' = Ran("extract")
    /\ extracted_data' = extract_document_structure(clean_text)
    /\ LET args == CallArgs(env, attempt)
       IN  pc' = IF args.use_llm /\ args.llm_function # NoLlm THEN "enhance" ELSE "validate"
    /\ UNCHANGED <<text, call, ret, env, attempt, raw_text, clean_text, doc_info, exc, enh>>

Enhance ==
    /\ pc = "enhance"
    /\ runs' = Ran("enhance")
    /\ LET r == enhance_with_llm(extracted_data, CallArgs(env, attempt).llm_function)
       IN  extracted_data' = r.ret /\ enh' = r.how
    /\ pc' = "validate"
    /\ UNCHANGED <<text, call, ret, env, attempt, raw_text, clean_text, doc_info, exc>>

Validate ==
    /\ pc = "validate"
    /\ runs' = Ran("validate")
    /\ LET r == create_document_info(extracted_data)
       IN  IF r.ok
           THEN doc_info' = r.doc_info /\ pc' = "done" /\ exc' = exc
           ELSE doc_info' = doc_info /\ Raise(r.exc)
    /\ UNCHANGED <<text, call, ret, env, attempt, raw_text, clean_text, extracted_data, enh>>

\* the entry point shows the record and saves it; a failure to save is reported, not raised
MainReport ==
    /\ pc = "done"
    /\ env.entry = "main"
    /\ \E saved \in BOOLEAN : ret' = PyBool(saved)
    /\ pc' = "exit"
    /\ UNCHANGED <<text, call, env, attempt, raw_text, clean_text, extracted_data,
                   doc_info, exc, runs, enh>>

\* the entry point's handler runs the whole extraction once more, without a model
MainFallback ==
    /\ pc = "except"
    /\ attempt = 1
    /\ attempt' = 2
    /\ pc' = "read"
    /\ raw_text' = <<>>
    /\ clean_text' = <<>>
    /\ extracted_data' = NoData
    /\ UNCHANGED <<text, call, ret, env, doc_info, exc, runs, enh>>

\* the second extraction failed too: the entry point reports it and ends
MainGiveUp ==
    /\ pc = "except"
    /\ attempt = 2
    /\ pc' = "exit"
    /\ UNCHANGED <<text, call, ret, env, attempt, raw_text, clean_text, extracted_data,
                   doc_info, exc, runs, enh>>

NextPipe ==
    \/ MainStart
    \/ CallStart
    \/ ReadPdf
    \/ CleanText
    \/ ExtractStructure
    \/ Enhance
    \/ Validate
    \/ MainReport
    \/ MainFallback
    \/ MainGiveUp

SpecPipe == InitPipe /\ [][NextPipe]_vars


----------------------------------------------------------------------------
(* Properties of the extraction functions (SpecExtract) *)

\* C6: the title is the first of the first 20 non-empty trimmed lines that is longer than
\* 10 characters and holds no marker (issn, doi, ©, page, volume, in any case), and the
\* sentinel "Document title not found" when there is no such line; it is never empty.
C6_TitleIsFirstQualifyingLine ==
    call.fn = "extract_title" =>
        LET lines == StrippedLines(text)
            qualifying == {i \in 1..Len(lines) :
                              /\ i <= 20
                              /\ Len(lines[i]) > 10
                              /\ \A m \in SkipMarkers : ~Contains(Lower(lines[i]), m)}
        IN  /\ ret.t = "str"
            /\ ret.s # <<>>
            /\ IF qualifying = {} THEN ret.s = <<"D", "o", "c", "u", "m", "e", "n", "t", " ", "t", "i", "t", "l", "e", " ", "n", "o", "t", " ", "f", "o", "u", "n", "d">>
               ELSE \E i \in qualifying : /\ \A j \in qualifying : i <= j
                                          /\ ret.s = lines[i]

\* C6 (reached): a marker line and a line of exactly 10 characters are passed over and the
\* line after them is the title.
C6_Witness ==
    /\ call.fn = "extract_title"
    /\ text = <<"I", "S", "S", "N", " ", "1", "2", "3", "4", NL, "S", "h", "o", "r", "t", " ", "l", "i", "n", "e", NL, "W", "e", " ", "f", "o", "u", "n", "d", " ", "Z", ".", NL>>
    /\ ret = PyStr(<<"W", "e", " ", "f", "o", "u", "n", "d", " ", "Z", ".">>)

\* C7: no start pattern in the lowercased text gives null; otherwise the start is the end
\* of the match of the first pattern, in list order, that matches, and the result is null
\* (nothing but whitespace up to a boundary or the end of the text) or a non-empty piece of
\* the original text, found at or after the start, of at most max_chars characters.
C7_SectionOfFirstListedPattern ==
    call.fn = "extract_section_by_pattern" =>
        LET lower == Lower(text)
            ps == call.patterns
            matching == {i \in 1..Len(ps) : Contains(lower, ps[i].s)}
        IN  IF matching = {} THEN ret = PyNone
            ELSE LET i == CHOOSE x \in matching : \A y \in matching : x <= y
                     start == Find(lower, ps[i].s) + Len(ps[i].s)
                 IN  IF ret = PyNone
                     THEN \E e \in start..Len(text) :
                             /\ \A k \in (start + 1)..e : text[k] \in SpaceChars
                             /\ \/ e = Len(text)
                                \/ \E b \in {<<NL, "r", "e", "f", "e", "r", "e", "n", "c", "e", "s", NL>>, <<NL, "c", "o", "n", "c", "l", "u", "s", "i", "o", "n", NL>>, <<NL, "d", "i", "s", "c", "u", "s", "s", "i", "o", "n", NL>>} :
                                      MatchAt(lower, b, e)
                     ELSE /\ ret.t = "str"
                          /\ ret.s # <<>>
                          /\ Len(ret.s) <= call.max_chars
                          /\ \E a \in start..Len(text) : MatchAt(text, ret.s, a)

\* C7 (reached): the pattern listed second matches earlier in the text than the one listed
\* first, the section is the one after the pattern listed first, and it is cut at max_chars.
C7_Witness ==
    /\ call.fn = "extract_section_by_pattern"
    /\ text = <<NL, "I", "n", "t", "r", "o", "d", "u", "c", "t", "i", "o", "n", NL, NL, "A", "b", "s", "t", "r", "a", "c", "t", NL, "B", "o", "d", "y", " ", "t", "e", "x", "t", " ", "X", "y", ".", NL>>
    /\ call.patterns = << Lit(<<NL, "a", "b", "s", "t", "r", "a", "c", "t", NL>>), Lit(<<NL, "i", "n", "t", "r", "o", "d", "u", "c", "t", "i", "o", "n", NL>>) >>
    /\ call.max_chars = 4
    /\ ret = PyStr(<<"B", "o", "d", "y">>)

\* C9 (as claimed): the section ends where the first boundary pattern, in list order,
\* matches after the start - a heading line in capitals first, then references, conclusion
\* and discussion on their own line - and at the end of the text when none matches.
C9_SectionEndsAtFirstBoundary ==
    call.fn = "extract_section_by_pattern" =>
        LET lower == Lower(text)
            ps == call.patterns
            matching == {i \in 1..Len(ps) : Contains(lower, ps[i].s)}
        IN  matching # {} =>
                LET i == CHOOSE x \in matching : \A y \in matching : x <= y
                    start == Find(lower, ps[i].s) + Len(ps[i].s)
                    rest == PySlice(text, start, Len(text))
                    rest_lower == PySlice(lower, start, Len(text))
                    found == << SearchStart(CapsHeading, rest),
                                Find(rest_lower, <<NL, "r", "e", "f", "e", "r", "e", "n", "c", "e", "s", NL>>),
                                Find(rest_lower, <<NL, "c", "o", "n", "c", "l", "u", "s", "i", "o", "n", NL>>),
                                Find(rest_lower, <<NL, "d", "i", "s", "c", "u", "s", "s", "i", "o", "n", NL>>) >>
                    hits == {n \in 1..4 : found[n] # -1}
                    end == IF hits = {} THEN Len(text)
                           ELSE start + found[CHOOSE n \in hits : \A m \in hits : n <= m]
                    section == Strip(PySlice(text, start, end))
                IN  ret = IF section # <<>> THEN PyStr(PySlice(section, 0, call.max_chars))
                          ELSE PyNone

\* C1: the mapping has document, Introduction, Thoughts and Answers, each a non-empty
\* string; a section that is not extracted is replaced by its "... section not found in
\* document" sentence, and the title is a line of the text or "Document title not found".
C1_RequiredFieldsAreNonEmptyStrings ==
    call.fn = "extract_document_structure" =>
        LET d == ret.d
            found(patterns) == extract_section_by_pattern(text, patterns, 1500)
        IN  /\ {kdocument, kIntroduction, kThoughts, kAnswers} \subseteq DOMAIN d
            /\ \A k \in {kdocument, kIntroduction, kThoughts, kAnswers} :
                  d[k].t = "str" /\ d[k].s # <<>>
            /\ found(intro_patterns) = PyNone =>
                  d[kIntroduction].s = <<"I", "n", "t", "r", "o", "d", "u", "c", "t", "i", "o", "n", " ", "s", "e", "c", "t", "i", "o", "n", " ", "n", "o", "t", " ", "f", "o", "u", "n", "d", " ", "i", "n", " ", "d", "o", "c", "u", "m", "e", "n", "t">>
            /\ found(thought_patterns) = PyNone =>
                  d[kThoughts].s = <<"M", "e", "t", "h", "o", "d", "s", "/", "D", "i", "s", "c", "u", "s", "s", "i", "o", "n", " ", "s", "e", "c", "t", "i", "o", "n", " ", "n", "o", "t", " ", "f", "o", "u", "n", "d", " ", "i", "n", " ", "d", "o", "c", "u", "m", "e", "n", "t">>
            /\ found(answer_patterns) = PyNone =>
                  d[kAnswers].s = <<"R", "e", "s", "u", "l", "t", "s", "/", "C", "o", "n", "c", "l", "u", "s", "i", "o", "n", "s", " ", "s", "e", "c", "t", "i", "o", "n", " ", "n", "o", "t", " ", "f", "o", "u", "n", "d", " ", "i", "n", " ", "d", "o", "c", "u", "m", "e", "n", "t">>
            /\ \/ d[kdocument].s = <<"D", "o", "c", "u", "m", "e", "n", "t", " ", "t", "i", "t", "l", "e", " ", "n", "o", "t", " ", "f", "o", "u", "n", "d">>
               \/ \E i \in 1..Len(StrippedLines(text)) : d[kdocument].s = StrippedLines(text)[i]

\* C1 (reached): one section is extracted and another one is replaced by its sentence.
C1_Witness ==
    /\ call.fn = "extract_document_structure"
    /\ text = <<NL, "I", "n", "t", "r", "o", "d", "u", "c", "t", "i", "o", "n", NL, "B", "o", "d", "y", " ", "t", "e", "x", "t", " ", "X", "y", ".", NL>>
    /\ ret.d[kIntroduction] = PyStr(<<"B", "o", "d", "y", " ", "t", "e", "x", "t", " ", "X", "y", ".">>)
    /\ ret.d[kThoughts] = PyStr(<<"M", "e", "t", "h", "o", "d", "s", "/", "D", "i", "s", "c", "u", "s", "s", "i", "o", "n", " ", "s", "e", "c", "t", "i", "o", "n", " ", "n", "o", "t", " ", "f", "o", "u", "n", "d", " ", "i", "n", " ", "d", "o", "c", "u", "m", "e", "n", "t">>)
    /\ ret.d[kdocument] = PyStr(<<"I", "n", "t", "r", "o", "d", "u", "c", "t", "i", "o", "n">>)

\* C10 (as claimed): extract_references returns a "; "-join of at least one line, so that
\* Further_Reading is null or a non-empty string.
C10_ReferencesNeverEmpty ==
    /\ call.fn = "extract_references" =>
          (ret # PyNone => ret.t = "str" /\ ret.s # <<>>)
    /\ call.fn = "extract_document_structure" =>
          (ret.d[kFurther_Reading] # PyNone =>
              ret.d[kFurther_Reading].t = "str" /\ ret.d[kFurther_Reading].s # <<>>)

\* C10 (amended): extract_references returns null when no references, bibliography or
\* citations section is found, and otherwise the "; "-join of the first lines, at most 5 and
\* possibly none, of the section (capped at 1500 characters) that are longer than 20
\* characters and not digits only; Further_Reading is null or a string, which may be empty.
C10_ReferencesJoinUpToFive ==
    /\ call.fn = "extract_references" =>
          LET section == extract_section_by_pattern(
                             text, << Lit(<<NL, "r", "e", "f", "e", "r", "e", "n", "c", "e", "s", NL>>), Lit(<<NL, "b", "i", "b", "l", "i", "o", "g", "r", "a", "p", "h", "y", NL>>),
                                      Lit(<<NL, "c", "i", "t", "a", "t", "i", "o", "n", "s", NL>>) >>, 1500)
          IN  IF section = PyNone THEN ret = PyNone
              ELSE LET raw == Split(section.s, NL)
                       kept == SelectSeq(MkSeq([i \in 1..Len(raw) |-> Strip(raw[i])], Len(raw)),
                                         LAMBDA l : Len(l) > 20 /\ ~IsDigit(l))
                       n == IF Len(kept) > 5 THEN 5 ELSE Len(kept)
                   IN  ret = PyStr(Join(SubSeq(kept, 1, n), <<";", " ">>))
    /\ call.fn = "extract_document_structure" =>
          ret.d[kFurther_Reading] = extract_references(text)

\* C10 (reached): a references section is found, none of its lines is kept, and the result
\* is the empty string.
C10_Witness ==
    /\ call.fn = "extract_references"
    /\ text = <<NL, "R", "e", "f", "e", "r", "e", "n", "c", "e", "s", NL, "2", ".", " ", "J", "o", "n", "e", "s", " ", "e", "t", " ", "a", "l", " ", "2", "0", "2", "1", ".", NL>>
    /\ ret = PyStr(<<>>)

----------------------------------------------------------------------------
(* Properties of enhancement and validation (SpecMerge) *)

\* C3: when the model function raises, answers with a string that has no "{", no "}" or
\* nothing that parses between the first "{" and the last "}", or answers with data that is
\* no mapping, enhance_with_llm returns the mapping it was given, every key and value as
\* passed; the mapping passed is never changed, also not by a merge that fails part-way.
C3_FailureReturnsInputUnchanged ==
    call.fn = "enhance_with_llm" =>
        LET f == env.llm_function
            failure ==
                \/ f.kind = "raises"
                \/ /\ f.kind = "returns"
                   /\ f.v.t = "str"
                   /\ \/ ~Contains(f.v.s, <<"{">>)
                      \/ ~Contains(f.v.s, <<"}">>)
                      \/ LET parsed == JsonLoads(SubSeq(f.v.s, Find(f.v.s, <<"{">>) + 1,
                                                        RFind(f.v.s, <<"}">>) + 1))
                         IN  ~parsed.ok \/ parsed.v.t # "dict"
                \/ /\ f.kind = "returns"
                   /\ f.v.t \notin {"str", "dict"}
        IN  /\ failure => ret = call.arg /\ enh = "failed"
            /\ enh = "failed" => ret = call.arg
            /\ extracted_data = call.arg

\* C3 (reached): the answer has both braces and what is between them does not parse.
C3_Witness ==
    /\ call.fn = "enhance_with_llm"
    /\ env.llm_function = LlmReturns(PyStr(<<"{", QUOTE, "d", "o", "c", "u", "m", "e", "n", "t", QUOTE, ":", " ", QUOTE, "N", "e", "w", " ", "T", "i", "t", "l", "e", QUOTE, "}", "}">>))
    /\ enh = "failed"
    /\ ret = call.arg

\* C4: when the call and the parsing succeed, the mapping returned is the one passed,
\* overwritten with exactly the model's entries whose value is truthy and not "null"; with
\* no model function the mapping returned is the one passed.
C4_MergeTakesTruthyNonNullEntries ==
    call.fn = "enhance_with_llm" =>
        LET f == env.llm_function
            llm_data == IF f.kind = "returns" THEN ParseResponse(f.v) ELSE JsonError
            succeeds == /\ llm_data.ok
                        /\ llm_data.v.t = "dict"
                        /\ \A n \in 1..Len(llm_data.v.d) : llm_data.v.d[n].v # PyUnbool
        IN  /\ f = NoLlm => ret = call.arg
            /\ succeeds =>
                  LET items == llm_data.v.d
                      taken == {n \in 1..Len(items) :
                                   Truthy(items[n].v) /\ items[n].v # PyStr(<<"n", "u", "l", "l">>)}
                  IN  /\ enh = "merged"
                      /\ DOMAIN ret = DOMAIN call.arg \cup {items[n].k : n \in taken}
                      /\ \A n \in taken : ret[items[n].k] = items[n].v
                      /\ \A k \in DOMAIN ret :
                            (\A n \in taken : items[n].k # k) => ret[k] = call.arg[k]

\* C4 (reached): an entry is taken, an entry with the value "null" and entries with falsy
\* values are not.
C4_Witness ==
    /\ call.fn = "enhance_with_llm"
    /\ enh = "merged"
    /\ kdocument \in DOMAIN call.arg
    /\ ret[kdocument] = PyStr(<<"N", "e", "w", " ", "T", "i", "t", "l", "e">>)
    /\ call.arg[kdocument] # PyStr(<<"N", "e", "w", " ", "T", "i", "t", "l", "e">>)
    /\ kHallmarks \notin DOMAIN ret
    /\ ret[kFurther_Reading] = call.arg[kFurther_Reading]
    /\ \E n \in 1..Len(ParseResponse(env.llm_function.v).v.d) :
          ParseResponse(env.llm_function.v).v.d[n] = [k |-> kHallmarks, v |-> PyStr(<<"n", "u", "l", "l">>)]

\* C2 (as claimed): a mapping missing any of document, Introduction, Thoughts, Answers fails
\* validation, and a mapping in which all four are present passes it.
C2_AllFourPresentSucceeds ==
    call.fn = "create_document_info" =>
        IF \A k \in {kdocument, kIntroduction, kThoughts, kAnswers} : k \in DOMAIN call.arg
        THEN exc = NoExc /\ doc_info # NoData
        ELSE exc.type = "ValidationError"

\* C2 (amended): validation passes exactly when all four of document, Introduction,
\* Thoughts, Answers are present and hold strings and every optional field that is present
\* holds a string or null; it fails with a validation error otherwise, in particular when
\* one of the four is missing or when the merge put a number or a list under a field. The
\* record holds the mapping's value for every field present and null for the others.
C2_ValidIffStringsPresent ==
    call.fn = "create_document_info" =>
        LET d == call.arg
            required == {kdocument, kIntroduction, kThoughts, kAnswers}
            optional == {kHallmarks, kFurther_Reading, kImages, kFurther_Development,
                         kThoughts_I, kAnswers_I, kAnswers_II, kFurther_Thoughts, kEpendymoma}
        IN  IF /\ \A k \in required : k \in DOMAIN d /\ d[k].t = "str"
               /\ \A k \in optional : k \in DOMAIN d => d[k].t \in {"str", "none"}
            THEN /\ exc = NoExc
                 /\ DOMAIN doc_info = required \cup optional
                 /\ \A k \in required \cup optional :
                       doc_info[k] = IF k \in DOMAIN d THEN d[k] ELSE PyNone
            ELSE exc.type = "ValidationError" /\ doc_info = NoData

\* C2 (reached): the merge has put a list under Answers; all four fields are present and
\* validation fails.
C2_Witness ==
    /\ call.fn = "create_document_info"
    /\ enh = "merged"
    /\ \A k \in {kdocument, kIntroduction, kThoughts, kAnswers} : k \in DOMAIN call.arg
    /\ call.arg[kAnswers] = PyList(<< PyStr(<<"a">>) >>)
    /\ exc.type = "ValidationError"

----------------------------------------------------------------------------
(* Properties of the pipeline (SpecPipe) *)

\* C5 (as claimed): for the example text - ISSN line, then Introduction, Methods, Results
\* and References each on a line of its own - cleaning and extraction (the state right
\* after extract_document_structure, before any enhancement) give the first qualifying line
\* as the title, the text under each header in Introduction, Thoughts and Answers, and the
\* citation under References in Further_Reading.
C5_ExampleSectionsExtracted ==
    (pc \in {"enhance", "validate"} /\ runs[attempt]["enhance"] = 0 /\ raw_text = ExampleRaw) =>
        /\ extracted_data[kdocument] = PyStr(<<"I", "n", "t", "r", "o", "d", "u", "c", "t", "i", "o", "n">>)
        /\ Contains(extracted_data[kIntroduction].s, <<"T", "h", "i", "s", " ", "p", "a", "p", "e", "r", " ", "s", "t", "u", "d", "i", "e", "s", " ", "X", ".">>)
        /\ Contains(extracted_data[kThoughts].s, <<"W", "e", " ", "d", "i", "d", " ", "Y", ".">>)
        /\ Contains(extracted_data[kAnswers].s, <<"W", "e", " ", "f", "o", "u", "n", "d", " ", "Z", ".">>)
        /\ extracted_data[kFurther_Reading].t = "str"
        /\ Contains(extracted_data[kFurther_Reading].s, <<"S", "m", "i", "t", "h", " ", "e", "t", " ", "a", "l", ".", ",", " ", "2", "0", "2", "0">>)

\* C8 (as claimed): no stage is executed a second time for the document, an acquisition or
\* validation error propagates to the caller, and after an enhancement failure validation
\* runs on the heuristic mapping and succeeds.
C8_FailFastNoRetry ==
    /\ \A s \in Stages : Total(s) <= 1
    /\ exc # NoExc => pc = "raised" /\ exc.to = "caller"
    /\ enh = "failed" => pc \in {"validate", "done", "exit"}

\* C8 (amended): within one call of extract_document_info every stage is executed at most
\* once, and an acquisition or validation error propagates to the caller of that call, with
\* no record produced. An enhancement failure is recovered: validation still runs, on the
\* heuristic mapping, and succeeds. The program entry point catches a failure of its first,
\* enhanced call and runs the whole extraction a second time without enhancement, so that
\* acquisition, normalization, extraction and validation can be executed twice for the
\* document; it catches a failure of the second call too, and no error leaves it.
C8_RetryOnlyInEntryPoint ==
    /\ \A a \in {1, 2} : \A s \in Stages : runs[a][s] <= 1
    /\ env.entry = "call" =>
          /\ attempt = 1
          /\ exc # NoExc => pc = "raised" /\ exc.to = "caller" /\ doc_info = NoData
    /\ env.entry = "main" =>
          /\ pc # "raised"
          /\ exc # NoExc => exc.to = "main"
          /\ attempt = 2 => exc # NoExc /\ runs[2]["enhance"] = 0
          /\ attempt = 1 => \A s \in Stages : runs[2][s] = 0
    /\ enh = "failed" =>
          /\ attempt = 1
          /\ pc \in {"validate", "done", "exit"}
          /\ pc \in {"done", "exit"} =>
                /\ exc = NoExc
                /\ runs[1]["validate"] = 1
                /\ doc_info = DocumentInfo(extract_document_structure(clean_text))

\* C8 (reached): in the entry point the validation of the enhanced mapping failed, the
\* second extraction read, cleaned, extracted and validated again, and produced a record.
C8_Witness ==
    /\ env.entry = "main"
    /\ attempt = 2
    /\ pc = "exit"
    /\ exc = [type |-> "ValidationError", to |-> "main"]
    /\ \A s \in Stages \ {"enhance"} : Total(s) = 2
    /\ doc_info # NoData

====
